---- MODULE Spec2Model ----
(***************************************************************************)
(* Model of the codemap budget planner and formatter of topo-mcp           *)
(* (tools/codemap.go): buildDirTree, pruneToLimit, findLargestLeaf,        *)
(* pruneFilesToLimit, collectFiles and FormatCodemap.                      *)
(*                                                                         *)
(* A Go string is a sequence of one-character strings, so that prefix      *)
(* tests, splitting on the separator and bytewise comparison are computed  *)
(* as the code computes them.                                              *)
(***************************************************************************)
EXTENDS Integers, Sequences, FiniteSets, TLC

(***************************************************************************)
(* Bounds of the model and program constants.                              *)
(***************************************************************************)
MaxFiles == 3
MaxSymbols == 3
MaxLimit == 9
DefaultLineLimit == 1000
truncatedFileLineCount == 3

(***************************************************************************)
(* Strings.                                                                *)
(***************************************************************************)
Sep == "/"

\* Byte value of the characters the model uses (ASCII).
Ord(c) ==
    CASE c = "-" -> 45
      [] c = "." -> 46
      [] c = "/" -> 47
      [] c = "a" -> 97
      [] c = "b" -> 98
      [] c = "c" -> 99
      [] c = "m" -> 109
      [] c = "x" -> 120
      [] c = "y" -> 121

\* Go's s < t on strings: bytewise lexicographic order.
RECURSIVE StrLessFrom(_, _, _)
StrLessFrom(s, t, i) ==
    IF i > Len(s) \/ i > Len(t) THEN Len(s) < Len(t)
    ELSE IF Ord(s[i]) # Ord(t[i]) THEN Ord(s[i]) < Ord(t[i])
    ELSE StrLessFrom(s, t, i + 1)

StrLess(s, t) == StrLessFrom(s, t, 1)

HasPrefix(s, p) == Len(s) >= Len(p) /\ SubSeq(s, 1, Len(p)) = p

HasSuffix(s, p) == Len(s) >= Len(p) /\ SubSeq(s, Len(s) - Len(p) + 1, Len(s)) = p

TrimPrefix(s, p) == IF HasPrefix(s, p) THEN SubSeq(s, Len(p) + 1, Len(s)) ELSE s

TrimSuffix(s, p) == IF HasSuffix(s, p) THEN SubSeq(s, 1, Len(s) - Len(p)) ELSE s

\* Index of the last separator of s, 0 when there is none.
RECURSIVE LastSepFrom(_, _)
LastSepFrom(s, i) ==
    IF i = 0 THEN 0
    ELSE IF s[i] = Sep THEN i
    ELSE LastSepFrom(s, i - 1)

\* filepath.Dir on a clean relative path: "." when the path has no directory.
Dir(path) ==
    LET k == LastSepFrom(path, Len(path))
    IN IF k = 0 THEN <<".">> ELSE SubSeq(path, 1, k - 1)

\* strings.Split(s, "/")
RECURSIVE SplitFrom(_, _, _)
SplitFrom(s, i, cur) ==
    IF i > Len(s) THEN <<cur>>
    ELSE IF s[i] = Sep THEN <<cur>> \o SplitFrom(s, i + 1, <<>>)
    ELSE SplitFrom(s, i + 1, Append(cur, s[i]))

Split(s) == SplitFrom(s, 1, <<>>)

\* filepath.Join(a, b) for clean non-empty a and b.
Join(a, b) == a \o <<Sep>> \o b

(***************************************************************************)
(* Files.  A FileIndex is its path, the number of its symbols and the      *)
(* Truncated mark; the symbols themselves are only counted and printed.    *)
(***************************************************************************)
FileIndex(path, n) == [Path |-> path, Symbols |-> n, Truncated |-> FALSE]

\* matchesFilter: exact file match or directory prefix match.
matchesFilter(filePath, filter) ==
    LET f == TrimPrefix(filter, <<".", "/">>)
        p == TrimPrefix(filePath, <<".", "/">>)
        filterDir == TrimSuffix(f, <<"/">>)
    IN \/ p = f
       \/ HasPrefix(p, filterDir \o <<"/">>)

\* isSkipped: the path equals a skip pattern or lies under it.
isSkipped(filePath, patterns) ==
    LET p == TrimPrefix(filePath, <<".", "/">>)
    IN \E i \in 1..Len(patterns) :
          LET pat == TrimSuffix(TrimPrefix(patterns[i], <<".", "/">>), <<"/">>)
          IN p = pat \/ HasPrefix(p, pat \o <<"/">>)

\* fileLineCount: header + symbols + blank line, 0 for a file without symbols.
fileLineCount(file) ==
    IF file.Symbols = 0 THEN 0 ELSE 1 + file.Symbols + 1

(***************************************************************************)
(* The directory tree.  A tree is a function from the path of a node to    *)
(* the node; the root has the empty path.  children holds the keys of the  *)
(* node's children map.                                                    *)
(***************************************************************************)
RootPath == <<>>

NewNode(name, path) ==
    [name |-> name, path |-> path, files |-> <<>>, children |-> {},
     lines |-> 0, truncated |-> FALSE]

EmptyTree == (RootPath :> NewNode(<<>>, <<>>))

\* Path of the child called name of the node at path n.
ChildPath(n, name) == IF n = RootPath THEN name ELSE Join(n, name)

\* The navigate/create loop of buildDirTree over the directory components.
RECURSIVE Navigate(_, _, _, _)
Navigate(tree, current, parts, k) ==
    IF k > Len(parts) THEN [tree |-> tree, current |-> current]
    ELSE IF parts[k] = <<".">> \/ parts[k] = <<>>
         THEN Navigate(tree, current, parts, k + 1)
    ELSE LET part == parts[k]
             currentPath == ChildPath(current, part)
             grown == IF part \in tree[current].children THEN tree
                      ELSE (currentPath :> NewNode(part, currentPath))
                           @@ [tree EXCEPT ![current].children = @ \cup {part}]
         IN Navigate(grown, currentPath, parts, k + 1)

\* Mutant of AddFile: the skip patterns are applied under a filter too.
AddFileSkipUnderFilter(tree, file, opts) ==
    IF opts.Filter # <<>> /\ ~matchesFilter(file.Path, opts.Filter) THEN tree
    ELSE IF isSkipped(file.Path, opts.SkipPatterns)
         THEN [tree EXCEPT ![RootPath].lines = @ + 3]
    ELSE IF file.Symbols = 0 THEN tree
    ELSE LET nav == Navigate(tree, RootPath, Split(Dir(file.Path)), 1)
         IN [nav.tree EXCEPT ![nav.current].files = Append(@, file),
                             ![nav.current].lines = @ + fileLineCount(file)]

\* Mutant of AddFile: a skipped file is counted and inserted all the same.
AddFileInsertSkipped(tree, file, opts) ==
    IF opts.Filter # <<>> /\ ~matchesFilter(file.Path, opts.Filter) THEN tree
    ELSE IF file.Symbols = 0 THEN tree
    ELSE LET nav == Navigate(tree, RootPath, Split(Dir(file.Path)), 1)
         IN [nav.tree EXCEPT ![nav.current].files = Append(@, file),
                             ![nav.current].lines = @ + fileLineCount(file)]

\* One iteration of the loop of buildDirTree over the files.
AddFile(tree, file, opts) ==
    IF opts.Filter # <<>> /\ ~matchesFilter(file.Path, opts.Filter) THEN tree
    ELSE IF opts.Filter = <<>> /\ isSkipped(file.Path, opts.SkipPatterns)
         THEN [tree EXCEPT ![RootPath].lines = @ + 3]
    ELSE IF file.Symbols = 0 THEN tree
    ELSE LET nav == Navigate(tree, RootPath, Split(Dir(file.Path)), 1)
         IN [nav.tree EXCEPT ![nav.current].files = Append(@, file),
                             ![nav.current].lines = @ + fileLineCount(file)]

RECURSIVE AddFiles(_, _, _, _)
AddFiles(tree, fs, i, opts) ==
    IF i > Len(fs) THEN tree
    ELSE AddFiles(AddFile(tree, fs[i], opts), fs, i + 1, opts)

RECURSIVE SumFileLines(_, _)
SumFileLines(fs, i) ==
    IF i > Len(fs) THEN 0 ELSE fileLineCount(fs[i]) + SumFileLines(fs, i + 1)

\* The value calculateLines(node) returns: the files of the node at their
\* full cost plus the totals of the children.
RECURSIVE SubtreeLines(_, _), ChildrenLines(_, _, _)
SubtreeLines(tree, n) ==
    SumFileLines(tree[n].files, 1) + ChildrenLines(tree, n, tree[n].children)

ChildrenLines(tree, n, names) ==
    IF names = {} THEN 0
    ELSE LET c == CHOOSE x \in names : TRUE
         IN SubtreeLines(tree, ChildPath(n, c)) + ChildrenLines(tree, n, names \ {c})

\* calculateLines(root): every node's lines is overwritten by its total.
calculateLines(tree) ==
    [n \in DOMAIN tree |-> [tree[n] EXCEPT !.lines = SubtreeLines(tree, n)]]

buildDirTree(fs, opts) == calculateLines(AddFiles(EmptyTree, fs, 1, opts))

(***************************************************************************)
(* Iteration orders.  Go iterates a map in an unspecified order: an        *)
(* iteration order gives, for every node, the order in which a range over  *)
(* its children map yields the keys.                                       *)
(***************************************************************************)
RECURSIVE Perms(_)
Perms(S) ==
    IF S = {} THEN {<<>>}
    ELSE UNION {{<<x>> \o p : p \in Perms(S \ {x})} : x \in S}

RECURSIVE IterOrdersOver(_, _)
IterOrdersOver(tree, nodes) ==
    IF nodes = {} THEN {<<>>}
    ELSE LET n == CHOOSE x \in nodes : TRUE
         IN {(n :> p) @@ f : p \in Perms(tree[n].children),
                             f \in IterOrdersOver(tree, nodes \ {n})}

IterOrders(tree) == IterOrdersOver(tree, DOMAIN tree)

(***************************************************************************)
(* findLargestLeaf: the first node, in the order of the walk, with the     *)
(* most lines among the untruncated nodes without children, the root       *)
(* excepted.  found = FALSE is the nil result.                             *)
(***************************************************************************)
\* Mutant of IsLarger: no candidate is ever taken, no leaf is found.
IsLargerNever(node, maxLines) == FALSE

\* Mutant of IsLarger: every candidate replaces the one found so far.
IsLargerAlways(node, maxLines) == node.lines > 0

\* The test node.lines > maxLines of findLeaf.
IsLarger(node, maxLines) == node.lines > maxLines

RECURSIVE findLeaf(_, _, _, _), findLeafChildren(_, _, _, _, _)
findLeaf(tree, iter, n, acc) ==
    IF tree[n].children = {} /\ n # RootPath /\ ~tree[n].truncated
    THEN IF IsLarger(tree[n], acc.maxLines)
         THEN [found |-> TRUE, largest |-> n, maxLines |-> tree[n].lines]
         ELSE acc
    ELSE findLeafChildren(tree, iter, n, 1, acc)

findLeafChildren(tree, iter, n, k, acc) ==
    IF k > Len(iter[n]) THEN acc
    ELSE findLeafChildren(tree, iter, n, k + 1,
                          findLeaf(tree, iter, ChildPath(n, iter[n][k]), acc))

findLargestLeaf(tree, iter) ==
    findLeaf(tree, iter, RootPath, [found |-> FALSE, largest |-> RootPath, maxLines |-> 0])

\* Mutant of TruncateLeafBody: a leaf whose truncation saves no line is left
\* unmarked.
TruncateLeafBodySkipZero(tree, cur, leaf) ==
    LET originalLines == tree[leaf].lines
        newLines == Len(tree[leaf].files) * truncatedFileLineCount
        savings == originalLines - newLines
        marked == [tree EXCEPT ![leaf].truncated = (savings > 0)]
    IN [tree |-> calculateLines([marked EXCEPT ![leaf].lines = newLines]),
        currentLines |-> cur - savings]

\* The body of the truncation loop of pruneToLimit for the leaf found.
TruncateLeafBody(tree, cur, leaf) ==
    LET marked == [tree EXCEPT ![leaf].truncated = TRUE]
        originalLines == marked[leaf].lines
        newLines == Len(marked[leaf].files) * truncatedFileLineCount
        savings == originalLines - newLines
    IN [tree |-> calculateLines([marked EXCEPT ![leaf].lines = newLines]),
        currentLines |-> cur - savings]

(***************************************************************************)
(* pruneFilesToLimit.                                                      *)
(***************************************************************************)
RECURSIVE collectEntries(_, _, _), collectEntriesChildren(_, _, _, _)
collectEntries(tree, iter, n) ==
    [i \in 1..Len(tree[n].files) |->
        [node |-> n, index |-> i, lines |-> fileLineCount(tree[n].files[i])]]
    \o collectEntriesChildren(tree, iter, n, 1)

collectEntriesChildren(tree, iter, n, k) ==
    IF k > Len(iter[n]) THEN <<>>
    ELSE collectEntries(tree, iter, ChildPath(n, iter[n][k]))
         \o collectEntriesChildren(tree, iter, n, k + 1)

Range(s) == {s[i] : i \in 1..Len(s)}

\* The orders sort.Slice may leave the entries in: by lines descending, the
\* entries of equal lines in any order (the sort is not stable).
SortedByLinesDesc(entries) ==
    {s \in Perms(Range(entries)) :
        \A i \in 1..(Len(s) - 1) : ~(s[i + 1].lines > s[i].lines)}

\* The removal loop: entries are marked removed until the count fits.
RECURSIVE RemoveLoop(_, _, _, _, _)
RemoveLoop(sorted, k, cur, limit, removed) ==
    IF k > Len(sorted) \/ cur <= limit
    THEN [removed |-> removed, currentLines |-> cur]
    ELSE RemoveLoop(sorted, k + 1, cur - sorted[k].lines, limit,
                    removed \cup {<<sorted[k].node, sorted[k].index>>})

\* node.files without the removed indices, in their order.
RECURSIVE KeepFiles(_, _, _, _)
KeepFiles(fs, n, removed, i) ==
    IF i > Len(fs) THEN <<>>
    ELSE (IF <<n, i>> \in removed THEN <<>> ELSE <<fs[i]>>)
         \o KeepFiles(fs, n, removed, i + 1)

pruneFilesToLimit(tree, cur, limit, sorted) ==
    LET r == RemoveLoop(sorted, 1, cur, limit, {})
    IN [tree |-> [n \in DOMAIN tree |->
                    [tree[n] EXCEPT !.files = KeepFiles(tree[n].files, n, r.removed, 1)]],
        currentLines |-> r.currentLines]

(***************************************************************************)
(* collectFiles.                                                           *)
(***************************************************************************)
\* sort.Strings on the keys of a children map.
SortStrings(S) ==
    CHOOSE s \in Perms(S) : \A i \in 1..(Len(s) - 1) : StrLess(s[i], s[i + 1])

MarkTruncated(fs, truncated) ==
    [i \in 1..Len(fs) |-> IF truncated THEN [fs[i] EXCEPT !.Truncated = TRUE] ELSE fs[i]]

RECURSIVE collect(_, _), collectChildren(_, _, _, _)
collect(tree, n) ==
    MarkTruncated(tree[n].files, tree[n].truncated)
    \o collectChildren(tree, n, SortStrings(tree[n].children), 1)

collectChildren(tree, n, childNames, k) ==
    IF k > Len(childNames) THEN <<>>
    ELSE collect(tree, ChildPath(n, childNames[k]))
         \o collectChildren(tree, n, childNames, k + 1)

\* Mutant of SortByPath: the files stay in the order of the walk.
SortByPathSkipped(fs) == fs

\* sort.Slice by path.
SortByPath(fs) == SortSeq(fs, LAMBDA a, b : StrLess(a.Path, b.Path))

collectFiles(tree) == SortByPath(collect(tree, RootPath))

(***************************************************************************)
(* FormatCodemap.  The output is the sequence of its lines; a line is its  *)
(* kind and the path of the file it belongs to.                            *)
(***************************************************************************)
Line(kind, path) == [kind |-> kind, path |-> path]

\* The loop over the input files that writes the skipped files.
RECURSIVE SkippedLines(_, _, _)
SkippedLines(fs, opts, i) ==
    IF i > Len(fs) THEN <<>>
    ELSE (IF opts.Filter = <<>> /\ isSkipped(fs[i].Path, opts.SkipPatterns)
          THEN <<Line("header", fs[i].Path), Line("skipped", fs[i].Path),
                 Line("blank", fs[i].Path)>>
          ELSE <<>>)
         \o SkippedLines(fs, opts, i + 1)

\* The lines of one file of the pruned list.
FileLines(file) ==
    IF file.Symbols = 0 /\ ~file.Truncated THEN <<>>
    ELSE IF file.Truncated
         THEN <<Line("header", file.Path), Line("truncated", file.Path),
                Line("blank", file.Path)>>
    ELSE <<Line("header", file.Path)>>
         \o [j \in 1..file.Symbols |-> Line("symbol", file.Path)]
         \o <<Line("blank", file.Path)>>

RECURSIVE PrunedLines(_, _)
PrunedLines(fs, i) ==
    IF i > Len(fs) THEN <<>> ELSE FileLines(fs[i]) \o PrunedLines(fs, i + 1)

FormatOutput(fs, opts, pruned) == SkippedLines(fs, opts, 1) \o PrunedLines(pruned, 1)

\* Mutant of EffectiveLimit: a limit of 0 is passed on as it is.
EffectiveLimitAsGiven(opts) == opts.LineLimit

\* limit := opts.LineLimit, DefaultLineLimit when it is 0.
EffectiveLimit(opts) == IF opts.LineLimit = 0 THEN DefaultLineLimit ELSE opts.LineLimit

(***************************************************************************)
(* Inputs.                                                                 *)
(***************************************************************************)
PathUniverse ==
    { <<"m">>,
      <<"a", "/", "x">>,
      <<"a", "/", "y">>,
      <<"a", "/", "c", "/", "x">>,
      <<"a", "-", "b", "/", "x">> }

PathsOf(fs) == {fs[i].Path : i \in 1..Len(fs)}

\* File lists of n files with distinct paths, in every order.
RECURSIVE FileListsOfLen(_, _)
FileListsOfLen(n, counts) ==
    IF n = 0 THEN {<<>>}
    ELSE UNION {{Append(l, FileIndex(p, c)) : p \in PathUniverse \ PathsOf(l), c \in counts} :
                  l \in FileListsOfLen(n - 1, counts)}

FileLists(max, counts) == UNION {FileListsOfLen(n, counts) : n \in 0..max}

\* Symbol counts: files of 3 lines and of MaxSymbols + 2 lines for the pruning
\* runs, files without symbols for the runs with options, and files that
\* alone or in pairs reach the default limit.
PruneCounts == {1, MaxSymbols}
OptionCounts == {0, MaxSymbols}
BigCounts == {(DefaultLineLimit - 2) \div 2, DefaultLineLimit - 2}
SmallLimits == {-1, 2, 5, MaxLimit}
FilterChoices == {<<>>, <<".", "/", "a", "/">>, <<"a", "-", "b", "/", "x">>}
SkipChoices == {<<>>, << <<".", "/", "a", "/", "c", "/">>, <<"m">> >>}

NoPartition == [full |-> {}, truncated |-> {}, dropped |-> {}]

(***************************************************************************)
(* State.                                                                  *)
(***************************************************************************)
VARIABLES files, opts, pc, limit, tree, currentLines, prunedFiles, output, run, firstRun

\* The exclusion matcher: its loaded rules, the last Match call and its result.
VARIABLES patterns, query, ignored

\* A call of a glob function: its arguments and its result.
VARIABLES globCall, globResult

\* A run of IndexDirectory: the entries the walk reports, how many of them the
\* callback has seen, the results so far, the error of the walk and whether
\* the call has returned.
VARIABLES entries, visited, results, walkErr, indexPc

\* A source file, what the parser says of it, and a call of ReplaceSymbol.
VARIABLES content, symbols, parseOk, editCall, editErr

codemapVars == <<files, opts, pc, limit, tree, currentLines, prunedFiles, output, run, firstRun>>

matcherVars == <<patterns, query, ignored>>

globVars == <<globCall, globResult>>

indexVars == <<entries, visited, results, walkErr, indexPc>>

editVars == <<content, symbols, parseOk, editCall, editErr>>

\* Everything outside the codemap pipeline.
restVars == <<matcherVars, globVars, indexVars, editVars>>

vars == <<codemapVars, restVars>>

\* The value of a call record before any call was made.
NoCall == [fn |-> "none"]

\* The matcher of a directory without rule files, never asked.
MatcherIdle == patterns = <<>> /\ query = NoCall /\ ignored = FALSE

GlobIdle == globCall = NoCall /\ globResult = FALSE

\* An empty directory, not walked.
IndexIdle == entries = <<>> /\ visited = 0 /\ results = <<>> /\ walkErr = "nil" /\ indexPc = "walking"

\* An empty file, not edited.
EditIdle == content = <<>> /\ symbols = <<>> /\ parseOk = TRUE /\ editCall = NoCall /\ editErr = "nil"

RestIdle == MatcherIdle /\ GlobIdle /\ IndexIdle /\ EditIdle

\* The files the loop of buildDirTree inserts in the tree: those that pass the
\* filter or, without a filter, are not skipped, and that have symbols.
IsInserted(file, o) ==
    /\ o.Filter # <<>> => matchesFilter(file.Path, o.Filter)
    /\ o.Filter = <<>> => ~isSkipped(file.Path, o.SkipPatterns)
    /\ file.Symbols # 0

InsertedFiles == {files[i] : i \in {j \in 1..Len(files) : IsInserted(files[j], opts)}}

InsertedPaths == {f.Path : f \in InsertedFiles}

\* The partition of the inserted files a finished run produced.
Partition ==
    [full |-> {prunedFiles[i].Path : i \in {j \in 1..Len(prunedFiles) : ~prunedFiles[j].Truncated}},
     truncated |-> {prunedFiles[i].Path : i \in {j \in 1..Len(prunedFiles) : prunedFiles[j].Truncated}},
     dropped |-> InsertedPaths \ PathsOf(prunedFiles)]

Init ==
    /\ \/ /\ files \in FileLists(MaxFiles, PruneCounts)
          /\ opts \in [SkipPatterns : {<<>>}, Filter : {<<>>}, LineLimit : SmallLimits]
       \/ /\ files \in FileLists(MaxFiles, OptionCounts)
          /\ opts \in [SkipPatterns : SkipChoices, Filter : FilterChoices, LineLimit : {0, 5}]
       \/ /\ files \in FileLists(2, BigCounts)
          /\ opts \in [SkipPatterns : {<<>>}, Filter : {<<>>}, LineLimit : {0}]
    /\ pc = "start"
    /\ limit = 0
    /\ tree = EmptyTree
    /\ currentLines = 0
    /\ prunedFiles = <<>>
    /\ output = <<>>
    /\ run = 1
    /\ firstRun = NoPartition
    /\ RestIdle

(***************************************************************************)
(* Actions.                                                                *)
(***************************************************************************)
\* FormatCodemap up to the call of pruneToLimit.
BuildDirTree ==
    /\ pc = "start"
    /\ limit' = EffectiveLimit(opts)
    /\ tree' = buildDirTree(files, opts)
    /\ pc' = "prune"
    /\ UNCHANGED <<files, opts, currentLines, prunedFiles, output, run, firstRun>>
    /\ UNCHANGED restVars

\* Mutant of NoPruningNeeded: a limit <= 0 is not taken as unlimited.
NoPruningNeededUnderOnly(lim, rootLines) == rootLines <= lim

\* The test limit <= 0 || root.lines <= limit of pruneToLimit.
NoPruningNeeded(lim, rootLines) == lim <= 0 \/ rootLines <= lim

\* pruneToLimit: no pruning needed.
PruneNoop ==
    /\ pc = "prune"
    /\ NoPruningNeeded(limit, tree[RootPath].lines)
    /\ prunedFiles' = collectFiles(tree)
    /\ pc' = "format"
    /\ UNCHANGED <<files, opts, limit, tree, currentLines, output, run, firstRun>>
    /\ UNCHANGED restVars

\* pruneToLimit: the tree is over the limit, the loop is entered.
PruneBegin ==
    /\ pc = "prune"
    /\ ~NoPruningNeeded(limit, tree[RootPath].lines)
    /\ currentLines' = tree[RootPath].lines
    /\ pc' = "loop"
    /\ UNCHANGED <<files, opts, limit, tree, prunedFiles, output, run, firstRun>>
    /\ UNCHANGED restVars

\* One iteration of the truncation loop.
TruncateLeaf ==
    /\ pc = "loop"
    /\ currentLines > limit
    /\ \E iter \in IterOrders(tree) :
          LET r == findLargestLeaf(tree, iter)
          IN /\ r.found
             /\ LET b == TruncateLeafBody(tree, currentLines, r.largest)
                IN /\ tree' = b.tree
                   /\ currentLines' = b.currentLines
    /\ pc' = "loop"
    /\ UNCHANGED <<files, opts, limit, prunedFiles, output, run, firstRun>>
    /\ UNCHANGED restVars

\* The loop ended under the limit: the files are collected.
PruneReturn ==
    /\ pc = "loop"
    /\ currentLines <= limit
    /\ prunedFiles' = collectFiles(tree)
    /\ pc' = "format"
    /\ UNCHANGED <<files, opts, limit, tree, currentLines, output, run, firstRun>>
    /\ UNCHANGED restVars

\* The loop ended without a leaf to truncate and still over the limit:
\* individual files are pruned, then the files are collected.
PruneFiles ==
    /\ pc = "loop"
    /\ currentLines > limit
    /\ \E iter \in IterOrders(tree) :
          /\ ~findLargestLeaf(tree, iter).found
          /\ \E sorted \in SortedByLinesDesc(collectEntries(tree, iter, RootPath)) :
                LET r == pruneFilesToLimit(tree, currentLines, limit, sorted)
                IN /\ tree' = r.tree
                   /\ currentLines' = r.currentLines
                   /\ prunedFiles' = collectFiles(r.tree)
    /\ pc' = "format"
    /\ UNCHANGED <<files, opts, limit, output, run, firstRun>>
    /\ UNCHANGED restVars

\* FormatCodemap after pruneToLimit: the output is written.
Format ==
    /\ pc = "format"
    /\ output' = FormatOutput(files, opts, prunedFiles)
    /\ pc' = "done"
    /\ UNCHANGED <<files, opts, limit, tree, currentLines, prunedFiles, run, firstRun>>
    /\ UNCHANGED restVars

\* The codemap is requested a second time for the same index and options.
Rerun ==
    /\ pc = "done"
    /\ run = 1
    /\ firstRun' = Partition
    /\ run' = 2
    /\ pc' = "start"
    /\ limit' = 0
    /\ tree' = EmptyTree
    /\ currentLines' = 0
    /\ prunedFiles' = <<>>
    /\ output' = <<>>
    /\ UNCHANGED <<files, opts>>
    /\ UNCHANGED restVars

Next ==
    \/ BuildDirTree
    \/ PruneNoop
    \/ PruneBegin
    \/ TruncateLeaf
    \/ PruneReturn
    \/ PruneFiles
    \/ Format
    \/ Rerun

Spec == Init /\ [][Next]_vars

(***************************************************************************)
(* Properties.                                                             *)
(***************************************************************************)
Returned == pc \in {"format", "done"}

\* Lines a returned file occupies in the output.
RenderedFileCost(file) ==
    IF file.Truncated THEN truncatedFileLineCount ELSE 1 + file.Symbols + 1

RECURSIVE RenderedCost(_, _)
RenderedCost(fs, i) ==
    IF i > Len(fs) THEN 0 ELSE RenderedFileCost(fs[i]) + RenderedCost(fs, i + 1)

RECURSIVE SumCost(_)
SumCost(S) ==
    IF S = {} THEN 0
    ELSE LET f == CHOOSE x \in S : TRUE IN fileLineCount(f) + SumCost(S \ {f})

\* Total cost of the files inserted in the tree.
InsertedCost == SumCost(InsertedFiles)

TruncatedDirs(t) == {n \in DOMAIN t : t[n].truncated}

EligibleLeaves(t) ==
    {n \in DOMAIN t : t[n].children = {} /\ n # RootPath /\ ~t[n].truncated}

\* C1: for every limit > 0 the rendered cost of the files pruneToLimit
\* returns is at most the limit, unless no file is left.
C1_CostWithinLimit ==
    (Returned /\ limit > 0) =>
        (prunedFiles = <<>> \/ RenderedCost(prunedFiles, 1) <= limit)

\* C2: pruneToLimit is a no-op when the limit is <= 0 or the total cost is
\* within the limit: every inserted file is returned, none is truncated or
\* dropped, no directory is truncated.
C2_NoopWithinLimit ==
    (Returned /\ (limit <= 0 \/ InsertedCost <= limit)) =>
        /\ PathsOf(prunedFiles) = InsertedPaths
        /\ Len(prunedFiles) = Cardinality(InsertedPaths)
        /\ \A i \in 1..Len(prunedFiles) :
              /\ ~prunedFiles[i].Truncated
              /\ [prunedFiles[i] EXCEPT !.Truncated = FALSE] \in InsertedFiles
        /\ TruncatedDirs(tree) = {}

C2_Witness ==
    /\ Returned
    /\ limit > 0
    /\ InsertedCost = limit
    /\ Len(prunedFiles) >= 2
    /\ \E n \in DOMAIN tree : n # RootPath /\ tree[n].files # <<>>

\* C3: at every truncation step the node truncated has the maximum cost among
\* the eligible leaves (no child directories, not the root, not truncated).
C3_TruncatesLargestLeaf ==
    [][(pc = "loop" /\ pc' = "loop") =>
          \E n \in EligibleLeaves(tree) :
             /\ tree'[n].truncated
             /\ \A m \in DOMAIN tree \ {n} : tree'[m].truncated = tree[m].truncated
             /\ \A m \in EligibleLeaves(tree) :
                   SumFileLines(tree[m].files, 1) <= SumFileLines(tree[n].files, 1)]_vars

C3_Witness ==
    /\ pc = "loop"
    /\ Cardinality(TruncatedDirs(tree)) = 1
    /\ \E n \in TruncatedDirs(tree) : \E m \in EligibleLeaves(tree) :
          SumFileLines(tree[m].files, 1) < SumFileLines(tree[n].files, 1)

\* C4: two runs on identical inputs produce the same partition of the files
\* into rendered in full, truncated and dropped.
C4_SamePartition ==
    (pc = "done" /\ run = 2) => Partition = firstRun

\* C5: the file list pruneToLimit returns is in ascending order of path.
C5_SortedByPath ==
    Returned =>
        \A i, j \in 1..Len(prunedFiles) :
            i < j => StrLess(prunedFiles[i].Path, prunedFiles[j].Path)

C5_Witness ==
    /\ Returned
    /\ Len(files) >= 2
    /\ StrLess(files[2].Path, files[1].Path)
    /\ \E i, j \in 1..Len(prunedFiles) :
          /\ i < j
          /\ StrLess(Dir(prunedFiles[j].Path), Dir(prunedFiles[i].Path))

\* The lines of the output that belong to the file at path p.
LinesOf(p) == SelectSeq(output, LAMBDA l : l.path = p)

RenderedInFull(file) ==
    LinesOf(file.Path) =
        <<Line("header", file.Path)>>
        \o [j \in 1..file.Symbols |-> Line("symbol", file.Path)]
        \o <<Line("blank", file.Path)>>

RenderedTruncated(file) ==
    LinesOf(file.Path) =
        <<Line("header", file.Path), Line("truncated", file.Path), Line("blank", file.Path)>>

RenderedSkipped(file) ==
    LinesOf(file.Path) =
        <<Line("header", file.Path), Line("skipped", file.Path), Line("blank", file.Path)>>

\* C6: when pruning truncates a directory the output holds a pruning notice
\* listing exactly the truncated directories in sorted order, and holds none
\* when nothing is truncated.
C6_PruningNotice ==
    pc = "done" =>
        /\ (TruncatedDirs(tree) # {}) <=> (\E i \in 1..Len(output) : output[i].kind = "pruned")
        /\ TruncatedDirs(tree) # {} =>
              \E i \in 1..Len(output) :
                 output[i] = Line("pruned", SortStrings(TruncatedDirs(tree)))

\* C7: under a filter the skip patterns have no effect: no file is rendered as
\* skipped, every file with symbols that matches the filter is rendered,
\* subject only to the budget, and every other file is absent.
C7_FilterOverridesSkip ==
    (pc = "done" /\ opts.Filter # <<>>) =>
        /\ \A i \in 1..Len(output) : output[i].kind # "skipped"
        /\ \A i \in 1..Len(files) :
              IF ~matchesFilter(files[i].Path, opts.Filter) \/ files[i].Symbols = 0
              THEN LinesOf(files[i].Path) = <<>>
              ELSE IF limit <= 0 \/ InsertedCost <= limit
                   THEN RenderedInFull(files[i])
              ELSE \/ RenderedInFull(files[i])
                   \/ RenderedTruncated(files[i])
                   \/ LinesOf(files[i].Path) = <<>>

C7_Witness ==
    /\ pc = "done"
    /\ opts.Filter # <<>>
    /\ \E i, j \in 1..Len(files) :
          /\ isSkipped(files[i].Path, opts.SkipPatterns)
          /\ matchesFilter(files[i].Path, opts.Filter)
          /\ files[i].Symbols > 0
          /\ RenderedInFull(files[i])
          /\ isSkipped(files[j].Path, opts.SkipPatterns)
          /\ ~matchesFilter(files[j].Path, opts.Filter)

C9_ZeroMeansNoLimit ==
    (pc = "done" /\ opts.LineLimit = 0) =>
        /\ TruncatedDirs(tree) = {}
        /\ Partition.truncated = {}
        /\ Partition.dropped = {}

\* C10: without a filter every file matching a skip pattern is rendered as a
\* header plus the skipped notice, is never inserted in the tree and is never
\* truncated or dropped, for every budget.
C10_SkippedNeverPruned ==
    opts.Filter = <<>> =>
        \A i \in 1..Len(files) :
            isSkipped(files[i].Path, opts.SkipPatterns) =>
                /\ \A n \in DOMAIN tree : files[i].Path \notin PathsOf(tree[n].files)
                /\ files[i].Path \notin PathsOf(prunedFiles)
                /\ pc = "done" => RenderedSkipped(files[i])

C10_Witness ==
    /\ pc = "done"
    /\ opts.Filter = <<>>
    /\ Partition.truncated # {}
    /\ Partition.dropped # {}
    /\ \E i \in 1..Len(files) :
          /\ isSkipped(files[i].Path, opts.SkipPatterns)
          /\ files[i].Symbols > 0
          /\ RenderedSkipped(files[i])

(***************************************************************************)
(* The exclusion engine: glob matching.                                    *)
(***************************************************************************)
\* s[from:to] of Go, with 0-based bounds.
Slice(s, from, to) == SubSeq(s, from + 1, to)

\* strings.Index(s, sep), scanning from the 0-based position i.
RECURSIVE IndexFrom(_, _, _)
IndexFrom(s, sep, i) ==
    IF i + Len(sep) > Len(s) THEN -1
    ELSE IF Slice(s, i, i + Len(sep)) = sep THEN i
    ELSE IndexFrom(s, sep, i + 1)

Index(s, sep) == IndexFrom(s, sep, 0)

Contains(s, sep) == Index(s, sep) >= 0

\* strings.Split(s, sep) for a non-empty separator.
RECURSIVE SplitOn(_, _)
SplitOn(s, sep) ==
    LET idx == Index(s, sep)
    IN  IF idx = -1 THEN <<s>>
        ELSE <<Slice(s, 0, idx)>> \o SplitOn(Slice(s, idx + Len(sep), Len(s)), sep)

\* strings.Join(parts[i:], "/") with a 0-based i.
RECURSIVE JoinFrom(_, _)
JoinFrom(parts, i) ==
    IF i >= Len(parts) THEN <<>>
    ELSE IF i = Len(parts) - 1 THEN parts[i + 1]
    ELSE parts[i + 1] \o <<Sep>> \o JoinFrom(parts, i + 1)

DoubleStar == <<"*", "*">>

\* The trailing stars of the pattern left where they are.
SkipNoStars(pattern, px) == px

\* The loop that skips the trailing stars of the pattern.
RECURSIVE SkipStars(_, _)
SkipStars(pattern, px) ==
    IF px < Len(pattern) /\ pattern[px + 1] = "*" THEN SkipStars(pattern, px + 1) ELSE px

\* The main loop of matchSimpleGlob with its four cursors.
RECURSIVE GlobLoop(_, _, _, _, _, _)
GlobLoop(pattern, name, px, nx, starPx, starNx) ==
    IF nx >= Len(name) THEN SkipStars(pattern, px) = Len(pattern)
    ELSE IF px < Len(pattern) /\ pattern[px + 1] = "*"
         THEN GlobLoop(pattern, name, px + 1, nx, px, nx)
    ELSE IF px < Len(pattern) /\ pattern[px + 1] = "?" /\ name[nx + 1] # "/"
         THEN GlobLoop(pattern, name, px + 1, nx + 1, starPx, starNx)
    ELSE IF px < Len(pattern) /\ pattern[px + 1] \notin {"*", "?"} /\ pattern[px + 1] = name[nx + 1]
         THEN GlobLoop(pattern, name, px + 1, nx + 1, starPx, starNx)
    ELSE IF starPx >= 0 /\ starNx < Len(name) /\ name[starNx + 1] # "/"
         THEN GlobLoop(pattern, name, starPx + 1, starNx + 1, starPx, starNx + 1)
    ELSE FALSE

matchSimpleGlob(pattern, name) == GlobLoop(pattern, name, 0, 0, -1, -1)

hasPrefix(name, prefix) ==
    IF Len(name) < Len(prefix) THEN matchSimpleGlob(prefix, name)
    ELSE \/ matchSimpleGlob(prefix, Slice(name, 0, Len(prefix)))
         \/ /\ Len(name) > Len(prefix)
            /\ name[Len(prefix) + 1] = "/"
            /\ matchSimpleGlob(prefix, Slice(name, 0, Len(prefix)))

RECURSIVE matchDoublestarRecursive(_, _)
matchDoublestarRecursive(pattern, name) ==
    LET idx == Index(pattern, DoubleStar)
        prefix == TrimSuffix(Slice(pattern, 0, idx), <<Sep>>)
        suffix == TrimPrefix(Slice(pattern, idx + 2, Len(pattern)), <<Sep>>)
        rest == IF Slice(pattern, 0, idx) # <<>>
                THEN TrimPrefix(TrimPrefix(name, prefix), <<Sep>>)
                ELSE name
        parts == Split(rest)
    IN  IF idx = -1 THEN matchSimpleGlob(pattern, name)
        ELSE IF Slice(pattern, 0, idx) # <<>> /\ ~hasPrefix(name, prefix) THEN FALSE
        ELSE \/ matchDoublestarRecursive(suffix, rest)
             \/ \E i \in 1..Len(parts) : matchDoublestarRecursive(suffix, JoinFrom(parts, i))

\* matchDoublestar letting ** absorb no segment: the suffix is tried against
\* the whole remainder only.
matchDoublestarNoAbsorb(pattern, name) ==
    LET parts == SplitOn(pattern, DoubleStar)
        prefix == TrimSuffix(parts[1], <<Sep>>)
        suffix == TrimPrefix(parts[2], <<Sep>>)
        rest == IF parts[1] # <<>>
                THEN TrimPrefix(TrimPrefix(name, prefix), <<Sep>>)
                ELSE name
    IN  IF Len(parts) = 2
        THEN IF parts[1] # <<>> /\ ~HasPrefix(name, prefix) THEN FALSE
             ELSE IF suffix = <<>> THEN TRUE
             ELSE matchSimpleGlob(suffix, rest)
        ELSE matchDoublestarRecursive(pattern, name)

\* matchDoublestar: a pattern that contains **.
matchDoublestar(pattern, name) ==
    LET parts == SplitOn(pattern, DoubleStar)
        prefix == TrimSuffix(parts[1], <<Sep>>)
        suffix == TrimPrefix(parts[2], <<Sep>>)
        rest == IF parts[1] # <<>>
                THEN TrimPrefix(TrimPrefix(name, prefix), <<Sep>>)
                ELSE name
        pathParts == Split(rest)
    IN  IF Len(parts) = 2
        THEN IF parts[1] # <<>> /\ ~HasPrefix(name, prefix) THEN FALSE
             ELSE IF suffix = <<>> THEN TRUE
             ELSE \/ matchSimpleGlob(suffix, rest)
                  \/ \E i \in 0..(Len(pathParts) - 1) : matchSimpleGlob(suffix, JoinFrom(pathParts, i))
        ELSE matchDoublestarRecursive(pattern, name)

matchGlob(pattern, name) ==
    IF Contains(pattern, DoubleStar) THEN matchDoublestar(pattern, name)
    ELSE matchSimpleGlob(pattern, name)

(***************************************************************************)
(* The exclusion engine: rules and the matcher.  A parsed line is a list   *)
(* of at most one rule, the empty list standing for the nil pattern.       *)
(***************************************************************************)
\* The line with its trailing spaces left in place.
KeepTrailingSpaces(line) == line

\* The loop of parseLine that trims the trailing spaces of a line, keeping one
\* space that a backslash escapes.
RECURSIVE TrimTrailingSpaces(_)
TrimTrailingSpaces(line) ==
    IF Len(line) > 0 /\ line[Len(line)] = " "
    THEN IF Len(line) >= 2 /\ line[Len(line) - 1] = "\\"
         THEN Slice(line, 0, Len(line) - 2) \o <<" ">>
         ELSE TrimTrailingSpaces(Slice(line, 0, Len(line) - 1))
    ELSE line

parseLine(line, baseDir) ==
    LET trimmed == TrimTrailingSpaces(line)
        negation == HasPrefix(trimmed, <<"!">>)
        l1 == IF negation THEN Slice(trimmed, 1, Len(trimmed)) ELSE trimmed
        dirOnly == HasSuffix(l1, <<Sep>>)
        l2 == IF dirOnly THEN TrimSuffix(l1, <<Sep>>) ELSE l1
        rooted == HasPrefix(l2, <<Sep>>)
        l3 == IF rooted THEN Slice(l2, 1, Len(l2)) ELSE l2
    IN  IF trimmed = <<>> \/ HasPrefix(trimmed, <<"#">>) THEN <<>>
        ELSE <<[pattern |-> l3,
                negation |-> negation,
                dirOnly |-> dirOnly,
                anchored |-> rooted \/ Contains(l2, <<Sep>>),
                baseDir |-> baseDir]>>

\* loadFile: the rules of the lines of one file, appended in line order.
RECURSIVE loadFile(_, _, _)
loadFile(rules, lines, baseDir) ==
    IF lines = <<>> THEN rules
    ELSE loadFile(rules \o parseLine(Head(lines), baseDir), Tail(lines), baseDir)

\* The path relative to the base directory of the rule.
RelativeTo(path, baseDir) ==
    IF baseDir # <<>> THEN TrimPrefix(path, baseDir \o <<Sep>>) ELSE path

\* Mutant of matches: a non-anchored pattern is tried against the whole
\* path only.
matchesWholeOnly(p, path, isDir) ==
    LET rel == RelativeTo(path, p.baseDir)
    IN  IF p.dirOnly /\ ~isDir THEN FALSE
        ELSE IF p.baseDir # <<>> /\ ~HasPrefix(path, p.baseDir \o <<Sep>>) THEN FALSE
        ELSE matchGlob(p.pattern, rel)

\* Mutant of matches: no baseDir scope, the rule of a nested file applies
\* to every path.
matchesAnyBase(p, path, isDir) ==
    LET parts == Split(path)
    IN  IF p.dirOnly /\ ~isDir THEN FALSE
        ELSE IF p.anchored THEN matchGlob(p.pattern, path)
        ELSE \/ matchGlob(p.pattern, path)
             \/ \E i \in 0..(Len(parts) - 1) : matchGlob(p.pattern, JoinFrom(parts, i))

\* Mutant of matches: an anchored pattern is tried at every depth, like a
\* non-anchored one.
matchesAnyDepth(p, path, isDir) ==
    LET rel == RelativeTo(path, p.baseDir)
        parts == Split(rel)
    IN  IF p.dirOnly /\ ~isDir THEN FALSE
        ELSE IF p.baseDir # <<>> /\ ~HasPrefix(path, p.baseDir \o <<Sep>>) THEN FALSE
        ELSE \/ matchGlob(p.pattern, rel)
             \/ \E i \in 0..(Len(parts) - 1) : matchGlob(p.pattern, JoinFrom(parts, i))

\* Mutant of matches: without its first check, a directory-only rule also
\* matches files.
matchesAnyKind(p, path, isDir) ==
    LET rel == RelativeTo(path, p.baseDir)
        parts == Split(rel)
    IN  IF p.baseDir # <<>> /\ ~HasPrefix(path, p.baseDir \o <<Sep>>) THEN FALSE
        ELSE IF p.anchored THEN matchGlob(p.pattern, rel)
        ELSE \/ matchGlob(p.pattern, rel)
             \/ \E i \in 0..(Len(parts) - 1) : matchGlob(p.pattern, JoinFrom(parts, i))

\* pattern.matches: whether the rule matches the path.
matches(p, path, isDir) ==
    LET rel == RelativeTo(path, p.baseDir)
        parts == Split(rel)
    IN  IF p.dirOnly /\ ~isDir THEN FALSE
        ELSE IF p.baseDir # <<>> /\ ~HasPrefix(path, p.baseDir \o <<Sep>>) THEN FALSE
        ELSE IF p.anchored THEN matchGlob(p.pattern, rel)
        ELSE \/ matchGlob(p.pattern, rel)
             \/ \E i \in 0..(Len(parts) - 1) : matchGlob(p.pattern, JoinFrom(parts, i))

\* The loop of matchPath over the rules from the i-th on.
RECURSIVE matchPathFrom(_, _, _, _, _)
matchPathFrom(rules, i, path, isDir, ignoredSoFar) ==
    IF i > Len(rules) THEN ignoredSoFar
    ELSE matchPathFrom(rules, i + 1, path, isDir,
                       IF matches(rules[i], path, isDir) THEN ~rules[i].negation ELSE ignoredSoFar)

\* matchPath deciding by the first rule that matches instead of the last.
matchPathFirstWins(rules, path, isDir) ==
    LET M == {k \in 1..Len(rules) : matches(rules[k], path, isDir)}
    IN  M # {} /\ ~rules[CHOOSE k \in M : \A j \in M : k <= j].negation

\* matchPath: the last rule that matches decides.
matchPath(rules, path, isDir) == matchPathFrom(rules, 1, path, isDir, FALSE)

\* strings.Join(parts[:i], "/").
JoinTo(parts, i) == JoinFrom(SubSeq(parts, 1, i), 0)

\* The parent directories of a normalised path, outermost first.
Parents(path) == LET parts == Split(path) IN [i \in 1..(Len(parts) - 1) |-> JoinTo(parts, i)]

\* Match without the loop over the parent directories.
MatchPathOnly(rules, path, isDir) ==
    Len(rules) # 0 /\ matchPath(rules, TrimPrefix(path, <<".", Sep>>), isDir)

\* Match: the path is ignored if it or one of its parent directories is.
Match(rules, path, isDir) ==
    LET clean == TrimPrefix(path, <<".", Sep>>)
        parents == Parents(clean)
    IN  IF Len(rules) = 0 THEN FALSE
        ELSE IF \E i \in 1..Len(parents) : matchPath(rules, parents[i], TRUE) THEN TRUE
        ELSE matchPath(rules, clean, isDir)

\* New for a root that holds a rule file and one directory, pkg, with a rule
\* file of its own: the walk reads the file of the root first.
PkgDir == <<"p", "k", "g">>

New(rootLines, pkgLines) == loadFile(loadFile(<<>>, rootLines, <<>>), pkgLines, PkgDir)

(***************************************************************************)
(* The matcher as a state machine: New loads the rule files of a tree,     *)
(* then Match is called on paths of that tree.                             *)
(***************************************************************************)
MaxRules == 2

\* The sequences without repetition of at most n elements of S.
RECURSIVE ListsUpTo(_, _)
ListsUpTo(S, n) ==
    IF n = 0 THEN {<<>>}
    ELSE {<<>>} \cup UNION {{<<x>> \o l : l \in {m \in ListsUpTo(S, n - 1) : \A k \in 1..Len(m) : m[k] # x}} : x \in S}

\* Lines of the rule file of the root.
RootLines ==
    {<<"b", "u", "i", "l", "d", "/">>, <<"!", "b", "u", "i", "l", "d", "/", "k", "e", "e", "p", ".", "t", "x", "t">>, <<"*", ".", "l", "o", "g">>, <<"!", "k", "e", "e", "p", ".", "l", "o", "g">>,
     <<"/", "r", "o", "o", "t", ".", "t", "x", "t">>, <<"s", "r", "c", "/", "g", "e", "n", "/">>, <<"#", "x">>,
     <<"/", "*", ".", "t", "x", "t">>}

\* Lines of the rule file of pkg.
PkgLines == {<<"*", ".", "t", "m", "p">>, <<"!", "k", "e", "e", "p", ".", "l", "o", "g">>, <<"/", "r", "o", "o", "t", ".", "t", "x", "t">>, <<"b", "u", "i", "l", "d", "/">>}

\* Paths Match is asked about.
QueryPaths ==
    {<<"b", "u", "i", "l", "d">>, <<"b", "u", "i", "l", "d", "/", "k", "e", "e", "p", ".", "t", "x", "t">>, <<"b", "u", "i", "l", "d", "/", "o", "u", "t">>, <<"s", "r", "c", "/", "b", "u", "i", "l", "d">>, <<"s", "r", "c", "/", "b", "u", "i", "l", "d", "/", "k", "e", "e", "p", ".", "t", "x", "t">>,
     <<"a", ".", "l", "o", "g">>, <<"k", "e", "e", "p", ".", "l", "o", "g">>, <<"s", "r", "c", "/", "a", ".", "l", "o", "g">>, <<"s", "r", "c", "/", "k", "e", "e", "p", ".", "l", "o", "g">>, <<".", "/", "a", ".", "l", "o", "g">>,
     <<"r", "o", "o", "t", ".", "t", "x", "t">>, <<"s", "r", "c", "/", "r", "o", "o", "t", ".", "t", "x", "t">>, <<"s", "r", "c", "/", "g", "e", "n">>, <<"o", "t", "h", "e", "r", "/", "g", "e", "n">>, <<"s", "r", "c", "/", "g", "e", "n", "/", "f">>,
     <<"x", ".", "t", "m", "p">>, <<"p", "k", "g">>, <<"p", "k", "g", "/", "x", ".", "t", "m", "p">>, <<"p", "k", "g", "/", "s", "u", "b", "/", "x", ".", "t", "m", "p">>, <<"p", "k", "g", "/", "r", "o", "o", "t", ".", "t", "x", "t">>,
     <<"p", "k", "g", "/", "k", "e", "e", "p", ".", "l", "o", "g">>, <<"p", "k", "g", "/", "b", "u", "i", "l", "d">>, <<"p", "k", "g", "x", "/", "x", ".", "t", "m", "p">>}

CodemapIdle ==
    /\ files = <<>>
    /\ opts = [SkipPatterns |-> <<>>, Filter |-> <<>>, LineLimit |-> 0]
    /\ pc = "start"
    /\ limit = 0
    /\ tree = EmptyTree
    /\ currentLines = 0
    /\ prunedFiles = <<>>
    /\ output = <<>>
    /\ run = 1
    /\ firstRun = NoPartition

InitMatcher ==
    /\ patterns \in {New(r, p) : r \in ListsUpTo(RootLines, MaxRules), p \in ListsUpTo(PkgLines, 1)}
    /\ query = NoCall
    /\ ignored = FALSE
    /\ CodemapIdle
    /\ GlobIdle
    /\ IndexIdle
    /\ EditIdle

\* One call of Match.  The matcher never changes after New, so a second call
\* would only reach the states of a first one.
MatchCall(path, isDir) ==
    /\ query = NoCall
    /\ query' = [fn |-> "Match", path |-> path, isDir |-> isDir]
    /\ ignored' = Match(patterns, path, isDir)
    /\ UNCHANGED <<patterns, codemapVars, globVars, indexVars, editVars>>

NextMatcher == \E path \in QueryPaths, isDir \in BOOLEAN : MatchCall(path, isDir)

SpecMatcher == InitMatcher /\ [][NextMatcher]_vars

(***************************************************************************)
(* Properties of the matcher.                                              *)
(***************************************************************************)
MatchReturned == query.fn = "Match"

\* The path of the call as Match normalises it.
CleanQuery == TrimPrefix(query.path, <<".", Sep>>)

LastSegment(path) == LET parts == Split(path) IN parts[Len(parts)]

\* Some parent directory of the path is excluded by the rules.
AncestorExcluded(rules, path) ==
    \E i \in 1..Len(Parents(path)) : matchPath(rules, Parents(path)[i], TRUE)

UnderBase(path, baseDir) == baseDir = <<>> \/ HasPrefix(path, baseDir \o <<Sep>>)

RemoveAt(s, k) == SubSeq(s, 1, k - 1) \o SubSeq(s, k + 1, Len(s))

\* A rule written as a plain name followed by a slash, like foo/.
IsDirOnlyName(r) == r.dirOnly /\ ~r.negation /\ ~r.anchored

\* C11: a directory-only rule foo/ excludes a directory named foo (here: when
\* it is the last rule, so that no later rule re-includes the directory) and
\* never excludes a file named foo none of whose parent directories is
\* excluded: for such a file the result of Match is the one the rules without
\* that rule give.
C11_DirOnlyRule ==
    MatchReturned =>
        \A k \in 1..Len(patterns) :
            LET r == patterns[k]
            IN  (IsDirOnlyName(r) /\ UnderBase(CleanQuery, r.baseDir) /\ LastSegment(CleanQuery) = r.pattern)
                => /\ (query.isDir /\ k = Len(patterns)) => ignored
                   /\ (~query.isDir /\ ~AncestorExcluded(patterns, CleanQuery))
                      => ignored = Match(RemoveAt(patterns, k), query.path, FALSE)

\* Match was asked about a file whose name a directory-only rule carries, under
\* no excluded directory, and answered that the file is not excluded.
C11_Witness ==
    /\ MatchReturned
    /\ ~query.isDir
    /\ ~AncestorExcluded(patterns, CleanQuery)
    /\ \E k \in 1..Len(patterns) :
          /\ IsDirOnlyName(patterns[k])
          /\ UnderBase(CleanQuery, patterns[k].baseDir)
          /\ LastSegment(CleanQuery) = patterns[k].pattern
    /\ ~ignored

\* The positions of the rules that apply to the path and match it.
MatchingRules(rules, path, isDir) == {k \in 1..Len(rules) : matches(rules[k], path, isDir)}

Maximum(S) == CHOOSE k \in S : \A j \in S : j <= k

\* C12: for a path none of whose parent directories is excluded, the last rule
\* in load order that applies to the path and matches it decides: the path is
\* excluded exactly when that rule is not negated, and it is not excluded when
\* no rule matches.
C12_LastRuleWins ==
    (MatchReturned /\ ~AncestorExcluded(patterns, CleanQuery)) =>
        LET M == MatchingRules(patterns, CleanQuery, query.isDir)
        IN  IF M = {} THEN ~ignored ELSE ignored = ~patterns[Maximum(M)].negation

\* Match answered for a path that an earlier rule excludes and a later negated
\* rule re-includes.
C12_Witness ==
    /\ MatchReturned
    /\ ~AncestorExcluded(patterns, CleanQuery)
    /\ LET M == MatchingRules(patterns, CleanQuery, query.isDir)
       IN  /\ \E k \in M : ~patterns[k].negation
           /\ M # {} /\ patterns[Maximum(M)].negation
    /\ ~ignored

\* The parent directories of a path: its prefixes that end before a separator.
AncestorDirs(path) == {SubSeq(path, 1, i - 1) : i \in {j \in 2..Len(path) : path[j] = Sep}}

\* The last rule that matches the directory excludes it.
DirExcluded(rules, dir) ==
    LET M == MatchingRules(rules, dir, TRUE)
    IN  M # {} /\ ~rules[Maximum(M)].negation

\* C13: when some parent directory of a path, taken as a directory against the
\* full rule list, is excluded, Match returns true for the path, whatever its
\* name and kind, also when a later negated rule matches the path itself.
C13_ExcludedAncestor ==
    (MatchReturned /\ \E dir \in AncestorDirs(CleanQuery) : DirExcluded(patterns, dir)) => ignored

\* Match excluded a path under an excluded directory although the last rule
\* that matches the path itself is negated.
C13_Witness ==
    /\ MatchReturned
    /\ \E dir \in AncestorDirs(CleanQuery) : DirExcluded(patterns, dir)
    /\ LET M == MatchingRules(patterns, CleanQuery, query.isDir)
       IN  M # {} /\ patterns[Maximum(M)].negation
    /\ ignored

\* The whole-string glob semantics: ? is one character other than the
\* separator, * is any run of characters other than the separator, every other
\* character stands for itself.
RECURSIVE RefGlob(_, _)
RefGlob(pattern, name) ==
    IF pattern = <<>> THEN name = <<>>
    ELSE IF Head(pattern) = "*"
         THEN \/ RefGlob(Tail(pattern), name)
              \/ name # <<>> /\ Head(name) # Sep /\ RefGlob(pattern, Tail(name))
    ELSE IF Head(pattern) = "?"
         THEN name # <<>> /\ Head(name) # Sep /\ RefGlob(Tail(pattern), Tail(name))
    ELSE name # <<>> /\ Head(name) = Head(pattern) /\ RefGlob(Tail(pattern), Tail(name))

\* The rule's pattern matches the whole of the path relative to its baseDir.
WholePathMatch(r, path) ==
    UnderBase(path, r.baseDir) /\ RefGlob(r.pattern, RelativeTo(path, r.baseDir))

\* C14: an anchored rule matches a path only when its pattern matches the
\* whole path relative to the rule's baseDir, so never an entry of the same
\* name in a nested directory; a matcher made of one anchored rule excludes a
\* path only when the rule matches the whole of the path or of one of its
\* parent directories.
C14_AnchoredWholePath ==
    MatchReturned =>
        \A k \in 1..Len(patterns) :
            LET r == patterns[k]
            IN  (r.anchored /\ ~Contains(r.pattern, DoubleStar))
                => /\ matches(r, CleanQuery, query.isDir) => WholePathMatch(r, CleanQuery)
                   /\ (Len(patterns) = 1 /\ ignored)
                      => \E d \in AncestorDirs(CleanQuery) \cup {CleanQuery} : WholePathMatch(r, d)

\* A matcher made of one anchored rule was asked about an entry of the rule's
\* name in a nested directory and did not exclude it.
C14_Witness ==
    /\ MatchReturned
    /\ Len(patterns) = 1
    /\ patterns[1].anchored /\ ~patterns[1].negation
    /\ CleanQuery # patterns[1].pattern
    /\ LastSegment(CleanQuery) = LastSegment(patterns[1].pattern)
    /\ (patterns[1].dirOnly => query.isDir)
    /\ ~ignored

\* The rule as it would read in the rule file of the root.
AtRoot(r) == [r EXCEPT !.baseDir = <<>>]

\* C15: a rule with a non-empty baseDir D applies only to paths strictly under
\* D, where it matches as the same pattern matches the path relative to D;
\* for a path outside D the result of Match is the one the rules without that
\* rule give.
C15_BaseDirScope ==
    MatchReturned =>
        \A k \in 1..Len(patterns) :
            LET r == patterns[k]
                under == HasPrefix(CleanQuery, r.baseDir \o <<Sep>>)
                rel == SubSeq(CleanQuery, Len(r.baseDir) + 2, Len(CleanQuery))
            IN  r.baseDir # <<>>
                => /\ matches(r, CleanQuery, query.isDir) => under
                   /\ under => (matches(r, CleanQuery, query.isDir) <=> matches(AtRoot(r), rel, query.isDir))
                   /\ ~under => ignored = Match(RemoveAt(patterns, k), query.path, query.isDir)

\* Match did not exclude a path outside pkg whose name a rule of the rule file
\* of pkg would match.
C15_Witness ==
    /\ MatchReturned
    /\ \E k \in 1..Len(patterns) :
          /\ patterns[k].baseDir # <<>>
          /\ ~patterns[k].negation
          /\ ~HasPrefix(CleanQuery, patterns[k].baseDir \o <<Sep>>)
          /\ matches(AtRoot(patterns[k]), CleanQuery, query.isDir)
    /\ ~ignored

\* The rule is non-anchored with a simple glob for pattern, it applies to the
\* path, and its pattern matches the last segment of the path.
MatchesLastSegment(r, path, isDir) ==
    /\ ~r.anchored
    /\ ~Contains(r.pattern, DoubleStar)
    /\ UnderBase(path, r.baseDir)
    /\ r.dirOnly => isDir
    /\ RefGlob(r.pattern, LastSegment(path))

\* C16: a non-anchored rule (a simple glob without any separator) matches a
\* path under its baseDir at every depth: whenever its pattern matches the last
\* segment of the path the rule matches the path, and when it is the last rule
\* and not negated Match excludes the path.
C16_NonAnchoredAnyDepth ==
    MatchReturned =>
        \A k \in 1..Len(patterns) :
            MatchesLastSegment(patterns[k], CleanQuery, query.isDir)
            => /\ matches(patterns[k], CleanQuery, query.isDir)
               /\ (k = Len(patterns) /\ ~patterns[k].negation) => ignored

\* Match excluded a nested path on account of a last, non-anchored rule whose
\* pattern matches the last segment of the path and none of the parent
\* directories.
C16_Witness ==
    /\ MatchReturned
    /\ patterns # <<>>
    /\ MatchesLastSegment(patterns[Len(patterns)], CleanQuery, query.isDir)
    /\ ~patterns[Len(patterns)].negation
    /\ Len(Split(RelativeTo(CleanQuery, patterns[Len(patterns)].baseDir))) >= 2
    /\ ~AncestorExcluded(patterns, CleanQuery)
    /\ ignored

(***************************************************************************)
(* The glob functions called on their own: a pattern and a candidate name  *)
(* over a small alphabet, then one call of matchGlob or matchSimpleGlob.   *)
(***************************************************************************)
MaxPattern == 4

MaxName == 4

\* The strings over an alphabet of at most n characters.
RECURSIVE StringsUpTo(_, _)
StringsUpTo(alphabet, n) ==
    IF n = 0 THEN {<<>>}
    ELSE {<<>>} \cup {<<c>> \o s : c \in alphabet, s \in StringsUpTo(alphabet, n - 1)}

PatternAlphabet == {"a", "*", "?", Sep}

NameAlphabet == {"a", "b", Sep}

\* Patterns without **.
SimplePatterns == {t \in StringsUpTo(PatternAlphabet, MaxPattern) : ~Contains(t, DoubleStar)}

\* Patterns of the form **/S with S a simple glob.
DeepPatterns == {DoubleStar \o <<Sep>> \o s : s \in SimplePatterns \ {<<>>}}

\* The one-segment prefixes P, literal or with wildcards, and the short
\* suffixes S of the patterns P/** and P/**/S.
PrefixGlobs == {p \in StringsUpTo({"a", "b", "*", "?"}, MaxPattern - 2) : p # <<>> /\ ~Contains(p, DoubleStar)}

SuffixGlobs == {<<"a">>, <<"b">>, <<"*">>}

PrefixedPatterns ==
    {p \o <<Sep>> \o DoubleStar : p \in PrefixGlobs}
    \cup {p \o <<Sep>> \o DoubleStar \o <<Sep>> \o s : p \in PrefixGlobs, s \in SuffixGlobs}

InitGlob ==
    /\ globCall \in [fn : {"pending"}, pattern : SimplePatterns \cup DeepPatterns \cup PrefixedPatterns, name : StringsUpTo(NameAlphabet, MaxName)]
    /\ globResult = FALSE
    /\ CodemapIdle
    /\ MatcherIdle
    /\ IndexIdle
    /\ EditIdle

\* matchSimpleGlob is only ever called with a pattern without **.
MatchSimpleGlobCall ==
    /\ globCall.fn = "pending"
    /\ ~Contains(globCall.pattern, DoubleStar)
    /\ globCall' = [globCall EXCEPT !.fn = "matchSimpleGlob"]
    /\ globResult' = matchSimpleGlob(globCall.pattern, globCall.name)
    /\ UNCHANGED <<codemapVars, matcherVars, indexVars, editVars>>

MatchGlobCall ==
    /\ globCall.fn = "pending"
    /\ globCall' = [globCall EXCEPT !.fn = "matchGlob"]
    /\ globResult' = matchGlob(globCall.pattern, globCall.name)
    /\ UNCHANGED <<codemapVars, matcherVars, indexVars, editVars>>

NextGlob == MatchSimpleGlobCall \/ MatchGlobCall

SpecGlob == InitGlob /\ [][NextGlob]_vars

(***************************************************************************)
(* Properties of the glob functions.                                       *)
(***************************************************************************)
\* The path-segment suffixes of a name: the name and what follows each of its
\* separators.
SegmentSuffixes(name) ==
    {name} \cup {SubSeq(name, i + 1, Len(name)) : i \in {j \in 1..Len(name) : name[j] = Sep}}

\* The S of a pattern **/S.
AfterDoubleStar(pattern) == SubSeq(pattern, 4, Len(pattern))

\* C17: for a pattern **/S with S a simple glob, matchGlob returns true exactly
\* when S matches the candidate or one of its path-segment suffixes.
C17_DoubleStarSlash ==
    (globCall.fn = "matchGlob" /\ globCall.pattern \in DeepPatterns) =>
        (globResult <=> \E s \in SegmentSuffixes(globCall.name) : RefGlob(AfterDoubleStar(globCall.pattern), s))

\* matchGlob accepted a candidate for **/S that S itself does not match: the
\* double star absorbed leading segments.
C17_Witness ==
    /\ globCall.fn = "matchGlob"
    /\ globCall.pattern \in DeepPatterns
    /\ ~RefGlob(AfterDoubleStar(globCall.pattern), globCall.name)
    /\ globResult

\* C18: for every pattern without ** and every candidate over an alphabet
\* with the separator, matchSimpleGlob agrees with the whole-string matcher in
\* which ? is one character other than the separator, * any run of characters
\* other than the separator and every other character itself.
C18_SimpleGlobAgrees ==
    globCall.fn = "matchSimpleGlob" => (globResult <=> RefGlob(globCall.pattern, globCall.name))

\* matchSimpleGlob accepted a candidate with a separator for a pattern with a
\* star followed by more pattern.
C18_Witness ==
    /\ globCall.fn = "matchSimpleGlob"
    /\ \E i \in 1..(Len(globCall.pattern) - 1) : globCall.pattern[i] = "*" /\ globCall.pattern[i + 1] # "*"
    /\ \E i \in 1..Len(globCall.name) : globCall.name[i] = Sep
    /\ globResult

(***************************************************************************)
(* IndexDirectory over the files of one directory.  An entry is named by   *)
(* the first thing that stops the callback on it: the walk reports an      *)
(* error for it, the matcher excludes it, no language supports it, it      *)
(* cannot be read, it cannot be parsed, or nothing: it is indexed.         *)
(***************************************************************************)
MaxEntries == 3

EntryKinds == {"walkerr", "ignored", "unsupported", "unreadable", "unparsable", "ok"}

InitIndex ==
    /\ entries \in UNION {[1..n -> EntryKinds] : n \in 0..MaxEntries}
    /\ visited = 0
    /\ results = <<>>
    /\ walkErr = "nil"
    /\ indexPc = "walking"
    /\ CodemapIdle
    /\ MatcherIdle
    /\ GlobIdle
    /\ EditIdle

\* The entry the walk hands to the callback next.
NextEntry == entries[visited + 1]

Walking == indexPc = "walking" /\ visited < Len(entries)

\* The callback returns the error the walk reports; the walk stops and
\* IndexDirectory returns the results so far with that error.
WalkError ==
    /\ Walking
    /\ NextEntry = "walkerr"
    /\ visited' = visited + 1
    /\ walkErr' = "err"
    /\ indexPc' = "returned"
    /\ UNCHANGED <<entries, results, codemapVars, matcherVars, globVars, editVars>>

\* The callback returns nil without a result for the file.
SkipFile ==
    /\ Walking
    /\ NextEntry \in {"ignored", "unsupported", "unreadable", "unparsable"}
    /\ visited' = visited + 1
    /\ UNCHANGED <<entries, results, walkErr, indexPc, codemapVars, matcherVars, globVars, editVars>>

\* The callback appends the index of the file, named here by its position.
IndexFile ==
    /\ Walking
    /\ NextEntry = "ok"
    /\ visited' = visited + 1
    /\ results' = Append(results, visited + 1)
    /\ UNCHANGED <<entries, walkErr, indexPc, codemapVars, matcherVars, globVars, editVars>>

\* The walk is over; IndexDirectory returns the results and a nil error.
WalkReturn ==
    /\ indexPc = "walking"
    /\ visited = Len(entries)
    /\ indexPc' = "returned"
    /\ UNCHANGED <<entries, visited, results, walkErr, codemapVars, matcherVars, globVars, editVars>>

NextIndex == WalkError \/ SkipFile \/ IndexFile \/ WalkReturn

SpecIndex == InitIndex /\ [][NextIndex]_vars

(***************************************************************************)
(* Properties of IndexDirectory.                                           *)
(***************************************************************************)
\* The positions of the entries that can be indexed, in walk order.
RECURSIVE IndexableFrom(_, _)
IndexableFrom(es, i) ==
    IF i > Len(es) THEN <<>>
    ELSE (IF es[i] = "ok" THEN <<i>> ELSE <<>>) \o IndexableFrom(es, i + 1)

\* C19: a file that cannot be read or parsed, also when it is the walk that
\* reports the error for it, never aborts indexing: the call returns every
\* indexable file and no error.
C19_BadFileNeverAborts ==
    indexPc = "returned" => (walkErr = "nil" /\ results = IndexableFrom(entries, 1))

(***************************************************************************)
(* ReplaceSymbol on one source file.  The file is its content, a string    *)
(* with newlines; the parser is an outside collaborator, so what it says   *)
(* of the file is an input: whether the file parses and, if it does, its   *)
(* symbols, each a name and a range of 0-based lines of the content.       *)
(***************************************************************************)
MaxContent == 3

MaxNewCode == 2

Newline == "\n"

\* strings.Join(parts, sep).
RECURSIVE JoinWith(_, _)
JoinWith(parts, sep) ==
    IF parts = <<>> THEN <<>>
    ELSE IF Len(parts) = 1 THEN parts[1]
    ELSE parts[1] \o sep \o JoinWith(Tail(parts), sep)

\* Any symbol at all stands for the one the name asks for.
FirstSymbol(syms, name) == IF syms = <<>> THEN -1 ELSE 0

\* The loop that finds the first symbol of the given name: its 0-based
\* position, or -1.
FindNamed(syms, name) ==
    LET hits == {i \in 1..Len(syms) : syms[i].name = name}
    IN  IF hits = {} THEN -1 ELSE (CHOOSE i \in hits : \A j \in hits : i <= j) - 1

\* Mutant of ReplaceSymbol: the last line of the range is kept after the new
\* code.
ReplaceSymbolKeepEnd(fileContent, syms, parses, symbolName, newCode) ==
    LET found == FindNamed(syms, symbolName)
        loc == syms[found + 1]
        lines == SplitOn(fileContent, <<Newline>>)
        startLine == IF loc.start < 0 THEN 0 ELSE loc.start
        endLine == IF loc.end >= Len(lines) THEN Len(lines) - 1 ELSE loc.end
        newLines == SubSeq(lines, 1, startLine)
                    \o SplitOn(TrimSuffix(newCode, <<Newline>>), <<Newline>>)
                    \o SubSeq(lines, endLine + 1, Len(lines))
    IN  IF ~parses THEN [err |-> "parse", content |-> fileContent]
        ELSE IF found = -1 THEN [err |-> "not found", content |-> fileContent]
        ELSE [err |-> "nil", content |-> JoinWith(newLines, <<Newline>>)]

\* ReplaceSymbol: the error it returns and the content of the file after it.
ReplaceSymbol(fileContent, syms, parses, symbolName, newCode) ==
    LET found == FindNamed(syms, symbolName)
        loc == syms[found + 1]
        lines == SplitOn(fileContent, <<Newline>>)
        startLine == IF loc.start < 0 THEN 0 ELSE loc.start
        endLine == IF loc.end >= Len(lines) THEN Len(lines) - 1 ELSE loc.end
        newLines == SubSeq(lines, 1, startLine)
                    \o SplitOn(TrimSuffix(newCode, <<Newline>>), <<Newline>>)
                    \o (IF endLine + 1 < Len(lines) THEN SubSeq(lines, endLine + 2, Len(lines)) ELSE <<>>)
    IN  IF ~parses THEN [err |-> "parse", content |-> fileContent]
        ELSE IF found = -1 THEN [err |-> "not found", content |-> fileContent]
        ELSE [err |-> "nil", content |-> JoinWith(newLines, <<Newline>>)]

\* FindSymbol: the error it returns and the lines of the symbol.
FindSymbol(fileContent, syms, parses, symbolName) ==
    LET found == FindNamed(syms, symbolName)
        loc == syms[found + 1]
        lines == SplitOn(fileContent, <<Newline>>)
        startLine == IF loc.start < 0 THEN 0 ELSE loc.start
        endLine == IF loc.end >= Len(lines) THEN Len(lines) - 1 ELSE loc.end
    IN  IF ~parses THEN [err |-> "parse", lines |-> <<>>]
        ELSE IF found = -1 THEN [err |-> "not found", lines |-> <<>>]
        ELSE [err |-> "nil", lines |-> SubSeq(lines, startLine + 1, endLine + 1)]

ContentAlphabet == {"x", "y", Newline}

NewCodeAlphabet == {"z", Newline}

DeclaredNames == {"f", "g"}

AskedNames == DeclaredNames \cup {"h"}

\* The symbols a file of n lines can have: every range of its lines under
\* every declared name.
SymbolsOfLines(n) ==
    {[name |-> nm, start |-> a, end |-> b] : nm \in DeclaredNames, a \in 0..(n - 1), b \in 0..(n - 1)}

\* The symbol lists of a file of n lines: at most two declarations, in source
\* order and not overlapping.
SymbolLists(n) ==
    LET one == {s \in SymbolsOfLines(n) : s.start <= s.end}
    IN  {<<>>} \cup {<<s>> : s \in one} \cup {p \in one \X one : p[1].end < p[2].start}

InitEdit ==
    /\ content \in StringsUpTo(ContentAlphabet, MaxContent)
    /\ parseOk \in BOOLEAN
    /\ symbols \in IF parseOk THEN SymbolLists(Len(SplitOn(content, <<Newline>>))) ELSE {<<>>}
    /\ editCall = NoCall
    /\ editErr = "nil"
    /\ CodemapIdle
    /\ MatcherIdle
    /\ GlobIdle
    /\ IndexIdle

\* One call of ReplaceSymbol.  What the parser says of the file after the call
\* is not known, so a run ends with the call.
ReplaceSymbolCall(symbolName, newCode) ==
    /\ editCall = NoCall
    /\ editCall' = [fn |-> "ReplaceSymbol", name |-> symbolName, newCode |-> newCode]
    /\ content' = ReplaceSymbol(content, symbols, parseOk, symbolName, newCode).content
    /\ editErr' = ReplaceSymbol(content, symbols, parseOk, symbolName, newCode).err
    /\ UNCHANGED <<symbols, parseOk, codemapVars, matcherVars, globVars, indexVars>>

\* One call of FindSymbol (read_definition); the file stays as it is.
FindSymbolCall(symbolName) ==
    /\ editCall = NoCall
    /\ editCall' = [fn |-> "FindSymbol", name |-> symbolName,
                    lines |-> FindSymbol(content, symbols, parseOk, symbolName).lines]
    /\ editErr' = FindSymbol(content, symbols, parseOk, symbolName).err
    /\ UNCHANGED <<content, symbols, parseOk, codemapVars, matcherVars, globVars, indexVars>>

\* ReplaceSymbol (write_definition) called with the lines a successful
\* FindSymbol has just returned for the same symbol, joined with newlines.
WriteBack ==
    LET code == JoinWith(editCall.lines, <<Newline>>)
    IN  /\ editCall.fn = "FindSymbol"
        /\ editErr = "nil"
        /\ editCall' = [fn |-> "ReplaceSymbol", name |-> editCall.name, newCode |-> code]
        /\ content' = ReplaceSymbol(content, symbols, parseOk, editCall.name, code).content
        /\ editErr' = ReplaceSymbol(content, symbols, parseOk, editCall.name, code).err
        /\ UNCHANGED <<symbols, parseOk, codemapVars, matcherVars, globVars, indexVars>>

NextEdit ==
    \/ \E symbolName \in AskedNames, newCode \in StringsUpTo(NewCodeAlphabet, MaxNewCode) :
          ReplaceSymbolCall(symbolName, newCode)
    \/ \E symbolName \in AskedNames : FindSymbolCall(symbolName)
    \/ WriteBack

SpecEdit == InitEdit /\ [][NextEdit]_vars

(***************************************************************************)
(* Properties of ReplaceSymbol.                                            *)
(***************************************************************************)
NamesOf(syms) == {syms[i].name : i \in 1..Len(syms)}

\* C20: ReplaceSymbol called on a file that parses with a name that no symbol
\* of the file has returns a 'not found' error and leaves the content of the
\* file unchanged.
C20_NotFoundLeavesFile ==
    [][(editCall'.fn = "ReplaceSymbol" /\ parseOk /\ editCall'.name \notin NamesOf(symbols))
       => (editErr' = "not found" /\ content' = content)]_vars

\* ReplaceSymbol was called with new code on a non-empty file that has symbols,
\* none of the name asked for, and returned 'not found'.
C20_Witness ==
    /\ editCall.fn = "ReplaceSymbol"
    /\ parseOk
    /\ symbols # <<>>
    /\ editCall.name \notin NamesOf(symbols)
    /\ editCall.newCode # <<>>
    /\ content # <<>>
    /\ editErr = "not found"

\* The lines of a text: the runs of characters between its newlines.
RECURSIVE TextLines(_, _, _)
TextLines(text, i, cur) ==
    IF i > Len(text) THEN <<cur>>
    ELSE IF text[i] = Newline THEN <<cur>> \o TextLines(text, i + 1, <<>>)
    ELSE TextLines(text, i + 1, Append(cur, text[i]))

\* The lines of the new code, whose one trailing newline does not count.
CodeLines(code) ==
    IF code # <<>> /\ code[Len(code)] = Newline
    THEN TextLines(SubSeq(code, 1, Len(code) - 1), 1, <<>>)
    ELSE TextLines(code, 1, <<>>)

\* The symbol a call of the given name is about: the first of that name.
TargetOf(syms, name) ==
    syms[CHOOSE i \in 1..Len(syms) : syms[i].name = name /\ \A j \in 1..(i - 1) : syms[j].name # name]

\* C21: a successful ReplaceSymbol changes only the lines of the range
\* [start, end] of the target symbol: the file after it is the lines before
\* start, then the lines of the new code, then the lines after end.
C21_OnlyRangeChanges ==
    [][(editCall'.fn = "ReplaceSymbol" /\ editErr' = "nil") =>
        LET before == TextLines(content, 1, <<>>)
            t == TargetOf(symbols, editCall'.name)
        IN  TextLines(content', 1, <<>>)
            = SubSeq(before, 1, t.start) \o CodeLines(editCall'.newCode) \o SubSeq(before, t.end + 2, Len(before))]_vars

\* ReplaceSymbol succeeded on a symbol with lines before and after it, with
\* new code of another number of lines than the range.
C21_Witness ==
    /\ editCall.fn = "ReplaceSymbol"
    /\ editErr = "nil"
    /\ LET t == TargetOf(symbols, editCall.name)
       IN  /\ t.start > 0
           /\ Len(CodeLines(editCall.newCode)) # t.end - t.start + 1
           /\ Len(TextLines(content, 1, <<>>)) > t.start + Len(CodeLines(editCall.newCode))

\* C29: write_definition is the inverse of read_definition: ReplaceSymbol
\* called with exactly the lines FindSymbol returns for a symbol, joined with
\* newlines, leaves the content of the file unchanged, also when the last line
\* of the range is empty.
C29_WriteBackIsIdentity ==
    [][(editCall.fn = "FindSymbol" /\ editCall'.fn = "ReplaceSymbol") => content' = content]_vars

(***************************************************************************)
(* parseLine called on its own: the matcher reads one line of a rule file. *)
(***************************************************************************)
MaxLine == 4

LineAlphabet == {"a", "!", "#", Sep, " ", "\\"}

InitParse ==
    /\ MatcherIdle
    /\ CodemapIdle
    /\ GlobIdle
    /\ IndexIdle
    /\ EditIdle

\* loadFile on a file of one line: the rules of the matcher are what parseLine
\* makes of the line.
ParseLineCall(line, baseDir) ==
    /\ query = NoCall
    /\ query' = [fn |-> "parseLine", line |-> line, baseDir |-> baseDir]
    /\ patterns' = loadFile(patterns, <<line>>, baseDir)
    /\ UNCHANGED <<ignored, codemapVars, globVars, indexVars, editVars>>

NextParse ==
    \E line \in StringsUpTo(LineAlphabet, MaxLine), baseDir \in {<<>>, PkgDir} : ParseLineCall(line, baseDir)

SpecParse == InitParse /\ [][NextParse]_vars

(***************************************************************************)
(* Properties of parseLine.                                                *)
(***************************************************************************)
\* The number of spaces the line ends with.
RECURSIVE TrailingSpaces(_)
TrailingSpaces(line) ==
    IF line # <<>> /\ line[Len(line)] = " " THEN 1 + TrailingSpaces(SubSeq(line, 1, Len(line) - 1)) ELSE 0

\* The line without its trailing unescaped spaces: when a backslash stands
\* before the run of trailing spaces, the first of them is escaped and stays,
\* without the backslash.
Unspaced(line) ==
    LET n == Len(line) - TrailingSpaces(line)
    IN  IF TrailingSpaces(line) > 0 /\ n > 0 /\ line[n] = "\\"
        THEN SubSeq(line, 1, n - 1) \o <<" ">>
        ELSE SubSeq(line, 1, n)

\* What the line says, marker by marker.
Classified(line, baseDir) ==
    LET t == Unspaced(line)
        neg == t[1] = "!"
        u == IF neg THEN SubSeq(t, 2, Len(t)) ELSE t
        dir == u # <<>> /\ u[Len(u)] = Sep
        v == IF dir THEN SubSeq(u, 1, Len(u) - 1) ELSE u
        rooted == v # <<>> /\ v[1] = Sep
    IN  [pattern |-> IF rooted THEN SubSeq(v, 2, Len(v)) ELSE v,
         negation |-> neg,
         dirOnly |-> dir,
         anchored |-> rooted \/ \E i \in 1..Len(v) : v[i] = Sep,
         baseDir |-> baseDir]

\* C22: parseLine classifies every line: it yields no rule exactly when the
\* line is empty after trimming its trailing unescaped spaces or starts with
\* #; otherwise it yields one rule, negated iff the line started with !,
\* dirOnly iff it then ended with /, anchored iff the remainder started with /
\* or still contains a /, with those markers stripped from the pattern and
\* baseDir the given directory.
C22_ParseLineClassifies ==
    query.fn = "parseLine" =>
        IF Unspaced(query.line) = <<>> \/ Unspaced(query.line)[1] = "#"
        THEN patterns = <<>>
        ELSE patterns = <<Classified(query.line, query.baseDir)>>

\* parseLine made a negated, anchored rule with a pattern of a line that ends
\* with spaces.
C22_Witness ==
    /\ query.fn = "parseLine"
    /\ Len(patterns) = 1
    /\ patterns[1].negation /\ patterns[1].anchored
    /\ TrailingSpaces(query.line) > 0
    /\ patterns[1].pattern # <<>>

\* The pattern is P/** or P/**/S: what stands before its /**, and what stands
\* after it, without the separator.
PrefixOf(pattern) == SubSeq(pattern, 1, Index(pattern, DoubleStar) - 1)

SuffixOf(pattern) == SubSeq(pattern, Index(pattern, DoubleStar) + 4, Len(pattern))

IsLiteral(p) == \A i \in 1..Len(p) : p[i] \notin {"*", "?"}

\* C26: a ** absorbs only complete path segments: a pattern P/**/S or P/** with
\* a literal prefix P matches a candidate only if the candidate is P or starts
\* with P followed by the separator.
C26_WholeSegmentPrefix ==
    (globCall.fn = "matchGlob" /\ globCall.pattern \in PrefixedPatterns
     /\ IsLiteral(PrefixOf(globCall.pattern)) /\ globResult)
    => \/ globCall.name = PrefixOf(globCall.pattern)
       \/ HasPrefix(globCall.name, PrefixOf(globCall.pattern) \o <<Sep>>)

\* The places where a leading run of whole segments of the name ends.
SegmentEnds(name) == {i \in 1..Len(name) : i = Len(name) \/ name[i + 1] = Sep}

\* The pattern P/** or P/**/S matches the name, P being a glob for the leading
\* segments and ** standing for any number of whole segments.
RefPrefixed(pattern, name) ==
    \E i \in SegmentEnds(name) :
        /\ RefGlob(PrefixOf(pattern), SubSeq(name, 1, i))
        /\ \/ SuffixOf(pattern) = <<>>
           \/ /\ i < Len(name)
              /\ \E s \in SegmentSuffixes(SubSeq(name, i + 2, Len(name))) : RefGlob(SuffixOf(pattern), s)

\* C27: the part of the pattern before the first ** is matched against the
\* start of the candidate under simple-glob rules: for a prefix with * or ?
\* the match succeeds exactly when the prefix glob matches the leading
\* segments of the candidate (and the rest of the pattern what follows them).
C27_GlobPrefixHonoured ==
    (globCall.fn = "matchGlob" /\ globCall.pattern \in PrefixedPatterns
     /\ ~IsLiteral(PrefixOf(globCall.pattern)))
    => (globResult <=> RefPrefixed(globCall.pattern, globCall.name))

(***************************************************************************)
(* Properties of the pruning steps.                                        *)
(***************************************************************************)
\* The paths of the files the nodes of the tree hold.
TreePaths(t) == UNION {{t[n].files[i].Path : i \in 1..Len(t[n].files)} : n \in DOMAIN t}

\* C23: directory truncation precedes file dropping: a step of pruneToLimit
\* drops a file only from a state where every leaf directory other than the
\* root is truncated and the total still exceeds the limit.
C23_TruncationBeforeDropping ==
    [][(pc = "loop" /\ TreePaths(tree') # TreePaths(tree))
       => (EligibleLeaves(tree) = {} /\ currentLines > limit)]_vars

\* A run dropped a file after it had truncated two directories.
C23_Witness ==
    /\ Returned
    /\ Partition.dropped # {}
    /\ Cardinality(TruncatedDirs(tree)) >= 2

\* C24: file-level pruning only considers files that are not in a truncated
\* directory: no step of pruneToLimit drops a file of a truncated directory,
\* which keeps all its files, to be rendered as truncated placeholders.
C24_TruncatedFilesKept ==
    [][pc = "loop" => \A n \in TruncatedDirs(tree) : tree'[n].files = tree[n].files]_vars

\* The lines a node should hold: its own files, at their full cost or at 3
\* lines each when the node is truncated, plus the lines of its children.
OwnCost(t, n) ==
    IF t[n].truncated THEN Len(t[n].files) * truncatedFileLineCount
    ELSE SumFileLines(t[n].files, 1)

RECURSIVE SumLines(_, _)
SumLines(t, nodes) ==
    IF nodes = {} THEN 0
    ELSE LET c == CHOOSE x \in nodes : TRUE IN t[c].lines + SumLines(t, nodes \ {c})

ChildrenOf(t, n) == {ChildPath(n, c) : c \in t[n].children}

LinesConsistent(t) ==
    \A n \in DOMAIN t : t[n].lines = OwnCost(t, n) + SumLines(t, ChildrenOf(t, n))

\* C25: after buildDirTree and after every truncation step of pruneToLimit,
\* the lines of each node are the costs of its own files (3 per file when the
\* node is truncated) plus the lines of its children.
C25_LinesConsistent == pc \in {"prune", "loop"} => LinesConsistent(tree)

\* C25, the part that holds: the tree buildDirTree returns is consistent.
C25_BuildConsistent == pc = "prune" => LinesConsistent(tree)

\* The files a skip pattern skips: buildDirTree tests the skip patterns only
\* when no filter is given.
SkippedFiles ==
    {i \in 1..Len(files) : opts.Filter = <<>> /\ isSkipped(files[i].Path, opts.SkipPatterns)}

\* C28: the root total buildDirTree returns, the one pruneToLimit compares
\* with the limit, counts 3 lines for each file skipped by a skip pattern on
\* top of the cost of the inserted files.
C28_SkippedCounted ==
    pc = "prune" => tree[RootPath].lines = InsertedCost + 3 * Cardinality(SkippedFiles)

(***************************************************************************)
(* Termination of pruneToLimit.  pruneToLimit is sequential code run by    *)
(* the goroutine that called FormatCodemap: a step of it that can be taken *)
(* is taken, which is weak fairness of its steps.  The index holds up to   *)
(* MaxFairFiles files.                                                     *)
(***************************************************************************)
MaxFairFiles == 2

FairLimits == {-1, 2, 4}

InitFair ==
    /\ files \in FileLists(MaxFairFiles, PruneCounts)
    /\ opts \in [SkipPatterns : {<<>>}, Filter : {<<>>}, LineLimit : FairLimits]
    /\ pc = "start"
    /\ limit = 0
    /\ tree = EmptyTree
    /\ currentLines = 0
    /\ prunedFiles = <<>>
    /\ output = <<>>
    /\ run = 1
    /\ firstRun = NoPartition
    /\ RestIdle

\* The steps of pruneToLimit.
PruneStep == PruneNoop \/ PruneBegin \/ TruncateLeaf \/ PruneReturn \/ PruneFiles

SpecFair == InitFair /\ [][Next]_vars /\ WF_vars(PruneStep)

FileCount(t) == SumLines([n \in DOMAIN t |-> [lines |-> Len(t[n].files)]], DOMAIN t)

\* The entries collectEntries gathers name each file of the tree once.
EntriesDistinct(t) ==
    \A iter \in IterOrders(t) :
        LET e == collectEntries(t, iter, RootPath)
        IN /\ Len(e) = FileCount(t)
           /\ Cardinality({<<e[i].node, e[i].index>> : i \in 1..Len(e)}) = Len(e)

\* An iteration of the truncation loop marks one leaf that was not truncated
\* and leaves the marks and the nodes of the rest of the tree alone.
MarksOneLeaf ==
    /\ DOMAIN tree' = DOMAIN tree
    /\ \E n \in EligibleLeaves(tree) : TruncatedDirs(tree') = TruncatedDirs(tree) \cup {n}

\* C30: pruneToLimit terminates for every tree and every limit: each
\* iteration of the truncation loop marks one more leaf as truncated, also
\* when that saves no line, the entries of file-level pruning hold each file
\* once, and a call of pruneToLimit always returns.
C30_PruneTerminates ==
    /\ [][(pc = "loop" /\ pc' = "loop") => MarksOneLeaf]_vars
    /\ [](pc = "loop" => EntriesDistinct(tree))
    /\ (pc = "prune" ~> Returned)

\* C30's case: every inserted file costs 3 lines, so that each truncation
\* saved nothing, and the call returned after pruning files.
C30_Witness ==
    /\ Returned
    /\ TruncatedDirs(tree) # {}
    /\ \A f \in InsertedFiles : f.Symbols = 1
    /\ Partition.dropped # {}

====
